---- MODULE Spec2Model ----
(***************************************************************************)
(* Model of the batch engine of src/src/main.py: process_single_code,      *)
(* process_codes_to_solve and retry_failed_codes, with the ledger file     *)
(* (result.json) they load and rewrite.                                    *)
(*                                                                         *)
(* Text is modelled as sequences of one-character strings, so that         *)
(* str.strip and str.split act on real characters.  Python's 0-based list  *)
(* positions are the 1-based positions of TLA+ sequences here.             *)
(***************************************************************************)
EXTENDS Integers, Sequences, FiniteSets, TLC

\* ---------------------------------------------------------------- bounds

\* Longest input file, in lines.
MaxLines == 3

\* Largest max_workers an invocation is given.
MaxWorkers == 2

\* Number of invocations (runs and retry passes) in one behaviour.
MaxOps == 2

\* Number of process interruptions in one behaviour.
MaxCrashes == 1

\* Number of ledger writes that fail (open or dump raising) in one behaviour.
MaxWriteFailures == 1

\* Length of the text of a line, its line end apart, in the input files that
\* exercise the parsing of a line.
MaxLineLen == 5

\* ------------------------------------------------------------------ text

TAB == "\t"
SP == " "
NL == "\n"

\* str.strip() with no argument removes these from both ends.
Whitespace == {SP, TAB, NL}

\* The raw lines readlines() can return for the modelled input files, each
\* with its line end: a tab-separated line, a space-separated line with a
\* leading space, a line with one field only, and an empty line.
LineTab == <<"a", TAB, "x", NL>>
LineSpace == <<SP, "b", SP, "y", NL>>
LineOneField == <<"m", NL>>
LineBlank == <<NL>>

RawLines == {LineTab, LineSpace, LineOneField, LineBlank}

InputFiles == UNION {[1..n -> RawLines] : n \in 0..MaxLines}

\* Python's None, where a string may stand.
None == "None"

\* The response text of a successful resolver call and its total_tokens.
Response == "MD"
TotalTokens == 1

\* str(e) / result['error'] of a failed resolver call: some text, never None.
ErrorText == "error"

RECURSIVE lstrip(_)
lstrip(s) ==
    IF s = <<>> THEN <<>>
    ELSE IF Head(s) \in Whitespace THEN lstrip(Tail(s))
    ELSE s

RECURSIVE rstrip(_)
rstrip(s) ==
    IF s = <<>> THEN <<>>
    ELSE IF s[Len(s)] \in Whitespace THEN rstrip(SubSeq(s, 1, Len(s) - 1))
    ELSE s

\* str.strip()
strip(s) == rstrip(lstrip(s))

\* sep in s
Contains(s, sep) == \E i \in 1..Len(s) : s[i] = sep

\* s.find(sep) as a 1-based position (0 when absent)
RECURSIVE Find(_, _, _)
Find(s, sep, i) ==
    IF i > Len(s) THEN 0
    ELSE IF s[i] = sep THEN i
    ELSE Find(s, sep, i + 1)

\* s.split(sep, 1): one part when sep is absent, else the text before the
\* first sep and the text after it.
split1(s, sep) ==
    LET p == Find(s, sep, 1) IN
    IF p = 0 THEN <<s>>
    ELSE <<SubSeq(s, 1, p - 1), SubSeq(s, p + 1, Len(s))>>

\* ------------------------------------------------------- process_single_code

\* The space tried first and the tab only when there is no space.
Parts_space_first(line) ==
    IF Contains(line, SP) THEN split1(line, SP) ELSE split1(line, TAB)

\* Lines 150-153: the fields of a stripped line.
Parts(line) ==
    IF Contains(line, TAB) THEN split1(line, TAB) ELSE split1(line, SP)

\* Lines 157-163: the entry of a line with fewer than two fields.
InvalidEntry(line) ==
    [original_line |-> line,
     original_code |-> Parts(line)[1],
     product_name |-> <<>>,
     found_code |-> None,
     error |-> "Formato invalido"]

\* Lines 180-187: the entry of a successful resolver call.
SuccessEntry(line, response, tokens) ==
    [original_line |-> line,
     original_code |-> strip(Parts(line)[1]),
     product_name |-> strip(Parts(line)[2]),
     found_code |-> response,
     tokens_used |-> tokens,
     error |-> None]

\* Lines 190-196 and 200-206: the entry of a resolver call that reported
\* success = False or raised.
FailedEntry(line, err) ==
    [original_line |-> line,
     original_code |-> strip(Parts(line)[1]),
     product_name |-> strip(Parts(line)[2]),
     found_code |-> None,
     error |-> err]

\* A line with fewer than two fields dropped like a blank one.
Classify_drop(raw) ==
    LET line == strip(raw) IN
    IF line = <<>> \/ Len(Parts(line)) < 2 THEN "none"
    ELSE "query"

\* process_single_code without the check of lines 155-163: a line of one
\* field goes on to the resolver.
Classify_query(raw) ==
    LET line == strip(raw) IN
    IF line = <<>> THEN "none"
    ELSE "query"

\* Lines 145-163: what process_single_code does before it calls the
\* resolver: "none" (return None), "invalid" (return the invalid entry) or
\* "query" (go on to simple_excel_query).
Classify(raw) ==
    LET line == strip(raw) IN
    IF line = <<>> THEN "none"
    ELSE IF Len(Parts(line)) < 2 THEN "invalid"
    ELSE "query"

\* ------------------------------------------------------------ ledger file

\* The ledger path: absent, or a JSON text.  The text json.dump writes for a
\* list is the records between brackets; `closed` is FALSE for a text that
\* ends before the closing bracket (open(path, 'w') leaves the empty text,
\* and a dump cut anywhere leaves a prefix: neither parses).
Missing == [exists |-> FALSE, recs |-> <<>>, closed |-> FALSE]

\* open(path, 'w'): the file exists and is empty.
Truncated == [exists |-> TRUE, recs |-> <<>>, closed |-> FALSE]

\* A dump taken before the newest entry was added.
Dumped_stale(results) ==
    [exists |-> TRUE,
     recs |-> SubSeq(results, 1, Len(results) - 1),
     closed |-> TRUE]

\* json.dump(results, f) run to its end.
Dumped(results) == [exists |-> TRUE, recs |-> results, closed |-> TRUE]

\* A path that does not exist taken for a ledger that loads (as empty).
Loadable_or_missing(f) == ~f.exists \/ f.closed

\* json.load(f) returns (a list) rather than raising.
Loadable(f) == f.exists /\ f.closed

\* ------------------------------------------------------------------ state

VARIABLES
    inputFile,         \* the lines of txt_path, as readlines() returns them
    ledgerFile,        \* output_path / result_json_path on disk
    op,                \* "none", "process" (process_codes_to_solve), "retry"
    pc,                \* "idle", "batch", "write", "done"
    ending,            \* how the invocation ended, once pc = "done"
    max_workers,
    load_failed,       \* the ledger existed and json.load raised
    existing_results,  \* the loaded ledger (all_results in retry_failed_codes)
    lines,             \* pending (idx, line) pairs (failed_indices in retry)
    results,           \* results (results_dict, as a list, in retry)
    batch_start,
    fut,               \* per pending item: its future's state and result
    count,             \* processed_count (retry_count in retry)
    success_count,
    before_open,       \* the file as it was when the write in progress began
    ops,               \* invocations started so far
    crashes,           \* interruptions so far
    write_failures,    \* failed writes so far
    calls,             \* resolver calls so far, per stripped line
    clean,             \* only runs with max_workers >= 1, and no failure yet
    writes,            \* ledger writes this invocation has completed
    persisted          \* the records of the latest completed ledger write

\* The state of excel_radication_processor.py.  A value that may be None
\* is a sequence: <<>> for None, <<v>> for the value v.
VARIABLES
    excel_files,       \* the list given to process_multiple_excel_files
    file_idx,          \* position of its loop in excel_files; 0 outside it
    total_processed,
    total_facturas,
    failed_files,
    saved,             \* the (file, data) pairs dumped as *_processed.json
    at,                \* "idle", "loop", "after_loop", "returned", "files",
                       \* "extracted", "summary"
    max_retries,
    current_try,
    data,
    result,            \* what the latest extract_structured_data returned
    attempts,          \* how each call of extract_structured_data ended
    returned           \* what extract_invoices_from_excel returned

codes_vars ==
    <<inputFile, ledgerFile, op, pc, ending, max_workers, load_failed,
      existing_results, lines, results, batch_start, fut, count,
      success_count, before_open, ops, crashes, write_failures, calls, clean,
      writes, persisted>>

extraction_vars ==
    <<excel_files, file_idx, total_processed, total_facturas, failed_files,
      saved, at, max_retries, current_try, data, result, attempts, returned>>

vars == <<codes_vars, extraction_vars>>

\* Locals of an invocation; reset when no invocation is running.
locals ==
    <<op, pc, ending, max_workers, load_failed, existing_results, lines,
      results, batch_start, fut, count, success_count, before_open, writes>>

Min(a, b) == IF a < b THEN a ELSE b

\* The values of max_workers an invocation may be given (an int option).
WorkerChoices == (-1)..MaxWorkers

OriginLines == {strip(inputFile[i]) : i \in 1..Len(inputFile)}

NoLocals ==
    /\ op' = "none"
    /\ pc' = "idle"
    /\ ending' = "none"
    /\ max_workers' = 0
    /\ load_failed' = FALSE
    /\ existing_results' = <<>>
    /\ lines' = <<>>
    /\ results' = <<>>
    /\ batch_start' = 0
    /\ fut' = <<>>
    /\ count' = 0
    /\ success_count' = 0
    /\ before_open' = Missing
    /\ writes' = 0

\* Before any call into excel_radication_processor.py.
NoExtraction ==
    /\ excel_files = <<>>
    /\ file_idx = 0
    /\ total_processed = 0
    /\ total_facturas = 0
    /\ failed_files = <<>>
    /\ saved = <<>>
    /\ at = "idle"
    /\ max_retries = 0
    /\ current_try = 0
    /\ data = <<>>
    /\ result = <<>>
    /\ attempts = <<>>
    /\ returned = <<>>

\* Before the first invocation: no ledger file, nothing running.
InitState ==
    /\ ledgerFile = Missing
    /\ op = "none"
    /\ pc = "idle"
    /\ ending = "none"
    /\ max_workers = 0
    /\ load_failed = FALSE
    /\ existing_results = <<>>
    /\ lines = <<>>
    /\ results = <<>>
    /\ batch_start = 0
    /\ fut = <<>>
    /\ count = 0
    /\ success_count = 0
    /\ before_open = Missing
    /\ ops = 0
    /\ crashes = 0
    /\ write_failures = 0
    /\ calls = [l \in OriginLines |-> 0]
    /\ clean = TRUE
    /\ writes = 0
    /\ persisted = <<>>
    /\ NoExtraction

Init ==
    /\ inputFile \in InputFiles
    /\ InitState

\* ------------------------------------------------------ process_codes_to_solve

\* Lines 254-256: the stripped original_line of every loaded entry without
\* error.
ProcessedLines(existing) ==
    {strip(existing[i].original_line) :
        i \in {j \in 1..Len(existing) : existing[j].error = None}}

\* Line 271: the (idx, line) pairs of the lines that are not blank.
AllLines(file) ==
    LET numbered == [i \in 1..Len(file) |-> [idx |-> i, line |-> file[i]]]
        NotBlank(p) == strip(p.line) # <<>>
    IN SelectSeq(numbered, NotBlank)

\* Line 274 comparing the raw line, line end included, with processed_lines.
Pending_raw(all_lines, processed_lines) ==
    LET NotProcessed(p) == p.line \notin processed_lines
    IN SelectSeq(all_lines, NotProcessed)

\* Line 274: the pairs whose stripped line is not in processed_lines.
Pending(all_lines, processed_lines) ==
    LET NotProcessed(p) == strip(p.line) \notin processed_lines
    IN SelectSeq(all_lines, NotProcessed)

\* A batch that runs to the end of the queue whatever max_workers is.
Batch_all(n, start, workers) == (start + 1)..n

\* A batch that begins one item early, on the last item of the batch before.
Batch_overlap(n, start, workers) ==
    (IF start = 0 THEN 1 ELSE start)..Min(start + workers, n)

\* Lines 289-291 and 377-379: the positions of the queue that form the batch
\* starting at batch_start (0-based), for a queue of n items.
Batch(n, start, workers) == (start + 1)..Min(start + workers, n)

\* Lines 302-305 and 390-406: the futures once the batch at `start` is
\* submitted to the executor.
Submit(f, n, start, workers) ==
    [k \in 1..n |->
        IF k \in Batch(n, start, workers)
        THEN [st |-> "queued", res |-> <<>>]
        ELSE f[k]]

NotSubmitted == [st |-> "pending", res |-> <<>>]

\* The loop entered with a step of at least 1 whatever max_workers is.
EnterLoop_clamped(queue, loaded, workers) ==
    /\ lines' = queue
    /\ existing_results' = loaded
    /\ results' = loaded
    /\ batch_start' = 0
    /\ count' = 0
    /\ success_count' = 0
    /\ before_open' = Missing
    /\ writes' = 0
    /\ pc' = "batch"
    /\ ending' = "none"
    /\ fut' = Submit([k \in 1..Len(queue) |-> NotSubmitted],
                     Len(queue), 0, IF workers < 1 THEN 1 ELSE workers)

\* What the body of an invocation does once its queue is known (lines
\* 284-300 and 367-388): range(0, n, max_workers) raises ValueError for a
\* step of 0, is empty for a negative step, and otherwise the first batch
\* is submitted.
EnterLoop(queue, loaded, workers) ==
    /\ lines' = queue
    /\ existing_results' = loaded
    /\ results' = loaded
    /\ batch_start' = 0
    /\ count' = 0
    /\ success_count' = 0
    /\ before_open' = Missing
    /\ writes' = 0
    /\ IF workers = 0
       THEN /\ pc' = "done"
            /\ ending' = "raised"
            /\ fut' = [k \in 1..Len(queue) |-> NotSubmitted]
       ELSE IF workers < 0
       THEN /\ pc' = "done"
            /\ ending' = "summary"
            /\ fut' = [k \in 1..Len(queue) |-> NotSubmitted]
       ELSE /\ pc' = "batch"
            /\ ending' = "none"
            /\ fut' = Submit([k \in 1..Len(queue) |-> NotSubmitted],
                             Len(queue), 0, workers)

\* An invocation that returns before its loop (lines 282, 345, 353, 360).
ReturnEarly(how, loaded) ==
    /\ lines' = <<>>
    /\ existing_results' = loaded
    /\ results' = <<>>
    /\ batch_start' = 0
    /\ count' = 0
    /\ success_count' = 0
    /\ before_open' = Missing
    /\ writes' = 0
    /\ fut' = <<>>
    /\ pc' = "done"
    /\ ending' = how

\* process_codes_to_solve, lines 243-300: load the ledger (an unparseable
\* one is reported and then treated as empty), build the pending queue and
\* start the first batch.
StartProcess(workers) ==
    /\ pc = "idle"
    /\ ops < MaxOps
    /\ ops' = ops + 1
    /\ op' = "process"
    /\ max_workers' = workers
    /\ load_failed' = (ledgerFile.exists /\ ~Loadable(ledgerFile))
    /\ LET loaded == IF Loadable(ledgerFile) THEN ledgerFile.recs ELSE <<>>
           queue == Pending(AllLines(inputFile), ProcessedLines(loaded))
       IN /\ IF queue = <<>>
             THEN ReturnEarly("early", loaded)
             ELSE EnterLoop(queue, loaded, workers)
          /\ clean' = (clean /\ (queue = <<>> \/ workers >= 1))
    /\ UNCHANGED <<inputFile, ledgerFile, crashes, write_failures, calls,
                   persisted>>
    /\ UNCHANGED extraction_vars

\* ---------------------------------------------------------- retry_failed_codes

\* Every position taken, failed or not.
FailedIndices_all(all_results) == [i \in 1..Len(all_results) |-> i]

\* Only the entries that failed at the resolver, not the malformed ones.
FailedIndices_resolver_only(all_results) ==
    LET positions == [i \in 1..Len(all_results) |-> i]
        Failed(i) == all_results[i].error \notin {None, "Formato invalido"}
    IN SelectSeq(positions, Failed)

\* Line 374: the positions of the entries with an error.
FailedIndices(all_results) ==
    LET positions == [i \in 1..Len(all_results) |-> i]
        Failed(i) == all_results[i].error # None
    IN SelectSeq(positions, Failed)

\* The pair tagged with its rank among the failed entries instead of its
\* position in the ledger.
RetryQueue_rank(all_results) ==
    LET failed == FailedIndices(all_results)
    IN [k \in 1..Len(failed) |->
           [idx |-> k, line |-> all_results[failed[k]].original_line]]

\* The pair with the line put together again from the stored code and
\* product name, tab between them, instead of the stored original_line.
RetryQueue_rebuilt(all_results) ==
    LET failed == FailedIndices(all_results)
    IN [k \in 1..Len(failed) |->
           [idx |-> failed[k],
            line |-> all_results[failed[k]].original_code \o <<TAB>>
                        \o all_results[failed[k]].product_name]]

\* Lines 391-395: the (idx, line) pair submitted for a failed position.
RetryQueue(all_results) ==
    LET failed == FailedIndices(all_results)
    IN [k \in 1..Len(failed) |->
           [idx |-> failed[k], line |-> all_results[failed[k]].original_line]]

\* retry_failed_codes, lines 343-388.
StartRetry(workers) ==
    /\ pc = "idle"
    /\ ops < MaxOps
    /\ ops' = ops + 1
    /\ op' = "retry"
    /\ max_workers' = workers
    /\ load_failed' = (ledgerFile.exists /\ ~Loadable(ledgerFile))
    /\ IF ~Loadable(ledgerFile)
       THEN ReturnEarly("error", <<>>)
       ELSE IF FailedIndices(ledgerFile.recs) = <<>>
       THEN ReturnEarly("early", ledgerFile.recs)
       ELSE EnterLoop(RetryQueue(ledgerFile.recs), ledgerFile.recs, workers)
    /\ clean' = FALSE
    /\ UNCHANGED <<inputFile, ledgerFile, crashes, write_failures, calls,
                   persisted>>
    /\ UNCHANGED extraction_vars

\* ------------------------------------------------------------ worker threads

\* The invocation is inside its batch loop (the executor is alive).
Running == pc \in {"batch", "write"}

\* The exception leaves process_single_code: future.result() raises and the
\* orchestrator records nothing for the item.
OnException_propagates(line, err) == <<>>

\* Lines 198-206: an exception of the resolver call is caught and becomes
\* the returned entry.
OnException(line, err) == <<FailedEntry(line, err)>>

Done(entry) == [st |-> "done", res |-> entry]

\* A worker thread picks up a submitted call of process_single_code and
\* runs it up to the resolver call (lines 145-174).
WorkerStart(k) ==
    /\ Running
    /\ k \in DOMAIN fut
    /\ fut[k].st = "queued"
    /\ LET line == strip(lines[k].line)
           kind == Classify(lines[k].line)
       IN IF kind = "none"
          THEN /\ fut' = [fut EXCEPT ![k] = Done(<<>>)]
               /\ UNCHANGED calls
          ELSE IF kind = "invalid"
          THEN /\ fut' = [fut EXCEPT ![k] = Done(<<InvalidEntry(line)>>)]
               /\ UNCHANGED calls
          ELSE /\ fut' = [fut EXCEPT ![k] = [st |-> "inflight", res |-> <<>>]]
               /\ calls' = [calls EXCEPT ![line] = @ + 1]
    /\ UNCHANGED <<inputFile, ledgerFile, op, pc, ending, max_workers,
                   load_failed, existing_results, lines, results,
                   batch_start, count, success_count, before_open, ops,
                   crashes, write_failures, clean, writes, persisted>>
    /\ UNCHANGED extraction_vars

\* simple_excel_query returns success = True (lines 176-187).
ResolverSucceeds(k) ==
    /\ Running
    /\ k \in DOMAIN fut
    /\ fut[k].st = "inflight"
    /\ fut' = [fut EXCEPT ![k] =
                 Done(<<SuccessEntry(strip(lines[k].line), Response,
                                     TotalTokens)>>)]
    /\ UNCHANGED <<inputFile, ledgerFile, op, pc, ending, max_workers,
                   load_failed, existing_results, lines, results,
                   batch_start, count, success_count, before_open, ops,
                   crashes, write_failures, calls, clean, writes, persisted>>
    /\ UNCHANGED extraction_vars

\* A failed call put back in the executor's queue to be tried again.
ResolverFails_again(k) ==
    /\ Running
    /\ k \in DOMAIN fut
    /\ fut[k].st = "inflight"
    /\ fut' = [fut EXCEPT ![k] = [st |-> "queued", res |-> <<>>]]
    /\ clean' = FALSE
    /\ UNCHANGED <<inputFile, ledgerFile, op, pc, ending, max_workers,
                   load_failed, existing_results, lines, results,
                   batch_start, count, success_count, before_open, ops,
                   crashes, write_failures, calls, writes, persisted>>
    /\ UNCHANGED extraction_vars

\* simple_excel_query returns success = False (lines 188-196).
ResolverFails(k) ==
    /\ Running
    /\ k \in DOMAIN fut
    /\ fut[k].st = "inflight"
    /\ fut' = [fut EXCEPT ![k] =
                 Done(<<FailedEntry(strip(lines[k].line), ErrorText)>>)]
    /\ clean' = FALSE
    /\ UNCHANGED <<inputFile, ledgerFile, op, pc, ending, max_workers,
                   load_failed, existing_results, lines, results,
                   batch_start, count, success_count, before_open, ops,
                   crashes, write_failures, calls, writes, persisted>>
    /\ UNCHANGED extraction_vars

\* simple_excel_query raises (lines 198-206).
ResolverRaises(k) ==
    /\ Running
    /\ k \in DOMAIN fut
    /\ fut[k].st = "inflight"
    /\ fut' = [fut EXCEPT ![k] =
                 Done(OnException(strip(lines[k].line), ErrorText))]
    /\ clean' = FALSE
    /\ UNCHANGED <<inputFile, ledgerFile, op, pc, ending, max_workers,
                   load_failed, existing_results, lines, results,
                   batch_start, count, success_count, before_open, ops,
                   crashes, write_failures, calls, writes, persisted>>
    /\ UNCHANGED extraction_vars

\* ------------------------------------------------------------- orchestrator

\* The new entry put before the others.
Append_front(list, idx, entry) == <<entry>> \o list

\* Each completion kept in one slot: the new entry put over the last one.
Append_last(list, idx, entry) ==
    IF list = <<>> THEN <<entry>> ELSE [list EXCEPT ![Len(list)] = entry]

\* Line 312 (results.append) and line 421 (results_dict[original_idx] = ...).
Append_(list, idx, entry) == Append(list, entry)

\* The retried entry added at the end instead of put at its position.
Replace_append(dict, idx, entry) == Append(dict, entry)

Replace(dict, idx, entry) == [dict EXCEPT ![idx] = entry]

Record(which, list, idx, entry) ==
    IF which = "retry" THEN Replace(list, idx, entry)
    ELSE Append_(list, idx, entry)

\* success_count raised for every retried entry, failed again or not.
Take_counts_all(k) ==
    /\ fut' = [fut EXCEPT ![k] = [st |-> "consumed", res |-> <<>>]]
    /\ IF fut[k].res = <<>>
       THEN UNCHANGED <<results, count, success_count>>
       ELSE /\ results' = Record(op, results, lines[k].idx, fut[k].res[1])
            /\ count' = count + 1
            /\ success_count' =
                 IF op = "retry" THEN success_count + 1 ELSE success_count

\* The in-memory effect of one completed future (lines 310-313, 412-421);
\* a future whose result is None or whose result() raises records nothing.
Take(k) ==
    /\ fut' = [fut EXCEPT ![k] = [st |-> "consumed", res |-> <<>>]]
    /\ IF fut[k].res = <<>>
       THEN UNCHANGED <<results, count, success_count>>
       ELSE /\ results' = Record(op, results, lines[k].idx, fut[k].res[1])
            /\ count' = count + 1
            /\ success_count' =
                 IF op = "retry" /\ fut[k].res[1].error = None
                 THEN success_count + 1 ELSE success_count

\* as_completed yields a finished future; its entry is recorded and the
\* ledger is opened for writing, which empties it (lines 308-317, 409-426).
Complete(k) ==
    /\ pc = "batch"
    /\ k \in DOMAIN fut
    /\ fut[k].st = "done"
    /\ Take(k)
    /\ IF fut[k].res = <<>>
       THEN UNCHANGED <<pc, ledgerFile, before_open>>
       ELSE /\ pc' = "write"
            /\ before_open' = ledgerFile
            /\ ledgerFile' = Truncated
    /\ UNCHANGED <<inputFile, op, ending, max_workers, load_failed,
                   existing_results, lines, batch_start, ops, crashes,
                   write_failures, calls, clean, writes, persisted>>
    /\ UNCHANGED extraction_vars

\* The same, with open() raising: the except clause of lines 319-320 and
\* 428-429 reports it and the loop goes on; the file is untouched.
CompleteOpenFails(k) ==
    /\ pc = "batch"
    /\ k \in DOMAIN fut
    /\ fut[k].st = "done"
    /\ fut[k].res # <<>>
    /\ write_failures < MaxWriteFailures
    /\ Take(k)
    /\ write_failures' = write_failures + 1
    /\ clean' = FALSE
    /\ UNCHANGED <<inputFile, ledgerFile, op, pc, ending, max_workers,
                   load_failed, existing_results, lines, batch_start,
                   before_open, ops, crashes, calls, writes, persisted>>
    /\ UNCHANGED extraction_vars

\* json.dump runs to its end and the file is closed (lines 318, 427).
FinishWrite ==
    /\ pc = "write"
    /\ ledgerFile' = Dumped(results)
    /\ pc' = "batch"
    /\ before_open' = Missing
    /\ writes' = writes + 1
    /\ persisted' = ledgerFile'.recs
    /\ UNCHANGED <<inputFile, op, ending, max_workers, load_failed,
                   existing_results, lines, results, batch_start, fut, count,
                   success_count, ops, crashes, write_failures, calls, clean>>
    /\ UNCHANGED extraction_vars

\* The exception of a failed dump leaves the loop and ends the invocation.
DumpFails_propagates ==
    /\ pc = "write"
    /\ write_failures < MaxWriteFailures
    /\ write_failures' = write_failures + 1
    /\ clean' = FALSE
    /\ pc' = "done"
    /\ ending' = "raised"
    /\ before_open' = Missing
    /\ UNCHANGED <<inputFile, ledgerFile, op, max_workers,
                   load_failed, existing_results, lines, results,
                   batch_start, fut, count, success_count, ops, crashes,
                   calls, writes, persisted>>
    /\ UNCHANGED extraction_vars

\* json.dump raises part-way: the text stays cut, the except clause reports
\* it and the loop goes on.
DumpFails ==
    /\ pc = "write"
    /\ write_failures < MaxWriteFailures
    /\ write_failures' = write_failures + 1
    /\ clean' = FALSE
    /\ pc' = "batch"
    /\ before_open' = Missing
    /\ UNCHANGED <<inputFile, ledgerFile, op, ending, max_workers,
                   load_failed, existing_results, lines, results,
                   batch_start, fut, count, success_count, ops, crashes,
                   calls, writes, persisted>>
    /\ UNCHANGED extraction_vars

\* A loop that stops at the first future yielded.
BatchCompleted_first(f, batch) == \E k \in batch : f[k].st = "consumed"

\* A with block left as soon as every future of the batch has finished,
\* whether or not the loop has yielded it.
BatchCompleted_done(f, batch) ==
    \A k \in batch : f[k].st \in {"done", "consumed"}

\* The as_completed loop has yielded every future of the batch, so the with
\* block is left (lines 308-325, 409-434).
BatchCompleted(f, batch) == \A k \in batch : f[k].st = "consumed"

CurrentBatch == Batch(Len(lines), batch_start, max_workers)

\* The next iteration of the batch loop.
NextBatch ==
    /\ pc = "batch"
    /\ BatchCompleted(fut, CurrentBatch)
    /\ batch_start + max_workers < Len(lines)
    /\ batch_start' = batch_start + max_workers
    /\ fut' = Submit(fut, Len(lines), batch_start + max_workers, max_workers)
    /\ UNCHANGED <<inputFile, ledgerFile, op, pc, ending, max_workers,
                   load_failed, existing_results, lines, results, count,
                   success_count, before_open, ops, crashes, write_failures,
                   calls, clean, writes, persisted>>
    /\ UNCHANGED extraction_vars

\* The loop is over: the summary is printed (lines 327-335, 436-450).
Finish ==
    /\ pc = "batch"
    /\ BatchCompleted(fut, CurrentBatch)
    /\ batch_start + max_workers >= Len(lines)
    /\ pc' = "done"
    /\ ending' = "summary"
    /\ UNCHANGED <<inputFile, ledgerFile, op, max_workers, load_failed,
                   existing_results, lines, results, batch_start, fut, count,
                   success_count, before_open, ops, crashes, write_failures,
                   calls, clean, writes, persisted>>
    /\ UNCHANGED extraction_vars

\* The invocation returns (or its exception ends the process).
Return ==
    /\ pc = "done"
    /\ NoLocals
    /\ clean' = (clean /\ ending # "raised")
    /\ UNCHANGED <<inputFile, ledgerFile, ops, crashes, write_failures,
                   calls, persisted>>
    /\ UNCHANGED extraction_vars

\* The process is interrupted inside the batch loop; what is on disk stays.
Crash ==
    /\ Running
    /\ crashes < MaxCrashes
    /\ crashes' = crashes + 1
    /\ clean' = FALSE
    /\ NoLocals
    /\ UNCHANGED <<inputFile, ledgerFile, ops, write_failures, calls,
                   persisted>>
    /\ UNCHANGED extraction_vars

Next ==
    \/ \E w \in WorkerChoices : StartProcess(w)
    \/ \E w \in WorkerChoices : StartRetry(w)
    \/ \E k \in DOMAIN fut : WorkerStart(k)
    \/ \E k \in DOMAIN fut : ResolverSucceeds(k)
    \/ \E k \in DOMAIN fut : ResolverFails(k)
    \/ \E k \in DOMAIN fut : ResolverRaises(k)
    \/ \E k \in DOMAIN fut : Complete(k)
    \/ \E k \in DOMAIN fut : CompleteOpenFails(k)
    \/ FinishWrite
    \/ DumpFails
    \/ NextBatch
    \/ Finish
    \/ Return
    \/ Crash

Spec == Init /\ [][Next]_vars

\* ------------------------------------------------------ a two-item scenario

\* str(e) of the TypeError that response[:80] raises for a response that is
\* None (line 178).
NoneTypeError == "'NoneType' object is not subscriptable"

\* simple_excel_query returns success = True with response None, the
\* message.content of a reply without text: response[:80] in the print of
\* line 178 raises inside the try, and the except of lines 198-206 builds
\* the entry.
ResolverAnswersNone(k) ==
    /\ Running
    /\ k \in DOMAIN fut
    /\ fut[k].st = "inflight"
    /\ fut' = [fut EXCEPT ![k] =
                 Done(OnException(strip(lines[k].line), NoneTypeError))]
    /\ clean' = FALSE
    /\ UNCHANGED <<inputFile, ledgerFile, op, pc, ending, max_workers,
                   load_failed, existing_results, lines, results,
                   batch_start, count, success_count, before_open, ops,
                   crashes, write_failures, calls, writes, persisted>>
    /\ UNCHANGED extraction_vars

\* An input file of two tab-separated lines, codes A1 and A2, products Foo
\* and Bar.
Foo == <<"F", "o", "o">>
Bar == <<"B", "a", "r">>
ScenarioFile ==
    << <<"A", "1", TAB>> \o Foo \o <<NL>>,
       <<"A", "2", TAB>> \o Bar \o <<NL>> >>

InitScenario ==
    /\ inputFile = ScenarioFile
    /\ InitState

\* The product name process_single_code hands to the resolver (line 166).
product_name(k) == strip(Parts(strip(lines[k].line))[2])

\* A resolver that answers for Foo always, and for Bar in a retry pass only;
\* in process_codes_to_solve the call for Bar comes back failed or raises.
ScenarioSucceeds(k) ==
    /\ ResolverSucceeds(k)
    /\ product_name(k) = Foo \/ op = "retry"

ScenarioFails(k) ==
    /\ ResolverFails(k)
    /\ product_name(k) = Bar /\ op = "process"

ScenarioRaises(k) ==
    /\ ResolverRaises(k)
    /\ product_name(k) = Bar /\ op = "process"

NextScenario ==
    \/ \E w \in WorkerChoices : StartProcess(w)
    \/ \E w \in WorkerChoices : StartRetry(w)
    \/ \E k \in DOMAIN fut : WorkerStart(k)
    \/ \E k \in DOMAIN fut : ScenarioSucceeds(k)
    \/ \E k \in DOMAIN fut : ScenarioFails(k)
    \/ \E k \in DOMAIN fut : ScenarioRaises(k)
    \/ \E k \in DOMAIN fut : Complete(k)
    \/ \E k \in DOMAIN fut : CompleteOpenFails(k)
    \/ FinishWrite
    \/ DumpFails
    \/ NextBatch
    \/ Finish
    \/ Return
    \/ Crash

SpecScenario == InitScenario /\ [][NextScenario]_vars

\* --------------------------------------------- invocations left to finish

\* A step of a worker thread, of the resolver, or of the orchestrating
\* thread when nothing fails: threads get to run, calls of the resolver
\* come back, and an open or a dump that does not raise returns.
Step ==
    \/ \E k \in DOMAIN fut : WorkerStart(k)
    \/ \E k \in DOMAIN fut : ResolverSucceeds(k)
    \/ \E k \in DOMAIN fut : ResolverFails(k)
    \/ \E k \in DOMAIN fut : ResolverRaises(k)
    \/ \E k \in DOMAIN fut : Complete(k)
    \/ FinishWrite
    \/ NextBatch
    \/ Finish

\* The invocations and their write failures, with no interruption.
NextLive ==
    \/ \E w \in WorkerChoices : StartProcess(w)
    \/ \E w \in WorkerChoices : StartRetry(w)
    \/ Step
    \/ \E k \in DOMAIN fut : CompleteOpenFails(k)
    \/ DumpFails
    \/ Return

\* Input files of tab-separated and one-field lines.
LiveFiles == UNION {[1..n -> {LineTab, LineOneField}] : n \in 0..MaxLines}

InitLive ==
    /\ inputFile \in LiveFiles
    /\ InitState

SpecLive == InitLive /\ [][NextLive]_vars /\ WF_vars(Step)

\* ------------------------------------------------------- any line of text

\* ------------------------------------------- every answer of the resolver

\* The invocations with every kind of answer of simple_excel_query: text,
\* a reply without text, an error value, an exception.  In Next the reply
\* without text is one of the failed calls, whose entry differs from this
\* one in the text of the error only.
NextOutcome ==
    \/ \E w \in WorkerChoices : StartProcess(w)
    \/ \E w \in WorkerChoices : StartRetry(w)
    \/ \E k \in DOMAIN fut : WorkerStart(k)
    \/ \E k \in DOMAIN fut : ResolverSucceeds(k)
    \/ \E k \in DOMAIN fut : ResolverAnswersNone(k)
    \/ \E k \in DOMAIN fut : ResolverFails(k)
    \/ \E k \in DOMAIN fut : ResolverRaises(k)
    \/ \E k \in DOMAIN fut : Complete(k)
    \/ \E k \in DOMAIN fut : CompleteOpenFails(k)
    \/ FinishWrite
    \/ DumpFails
    \/ NextBatch
    \/ Finish
    \/ Return
    \/ Crash

SpecOutcome == InitLive /\ [][NextOutcome]_vars

\* Input files whose first line is any text of letters, tabs and spaces:
\* alone, with or without its line end, or with its line end and followed
\* by a one-field line.
Chars == {"a", TAB, SP}

Texts == UNION {[1..n -> Chars] : n \in 0..MaxLineLen}

ParserFiles ==
    {<<t>> : t \in Texts \ {<<>>}}
        \cup {<<t \o <<NL>> >> : t \in Texts}
        \cup {<<t \o <<NL>>, LineOneField>> : t \in Texts}

InitParser ==
    /\ inputFile \in ParserFiles
    /\ InitState

SpecParser == InitParser /\ [][Next]_vars

\* ------------------------------------------- excel_radication_processor.py

\* Bounds: invoices in a reply, the largest max_retries a direct caller
\* passes, and files in a list.
MaxFacturas == 2
MaxRetries == 3
MaxFiles == 2

\* The shortest NIT the validation accepts (line 158) and the default of
\* max_retries (line 42).
MinNitLen == 6
DefaultRetries == 3

\* dict.get(key, default).
get(d, key, default) == IF key \in DOMAIN d THEN d[key] ELSE default

\* Truth value of a value that may be None or a dictionary: None and the
\* empty dictionary are false.
Truthy(v) == v # <<>> /\ DOMAIN v[1] # {}

\* A NIT of six digits and one of five.
NitOk == <<"9", "0", "0", "1", "2", "3">>
NitShort == <<"9", "0", "0", "1", "2">>

\* The invoices a reply may hold: complete with a NIT of six digits, with
\* a NIT of five, without the nit_cliente key, and with a short NIT and
\* without the numero_factura key.
InvoiceValid ==
    [numero_factura |-> "F1", nit_cliente |-> NitOk, valor_total |-> 1]
InvoiceShortNit ==
    [numero_factura |-> "F2", nit_cliente |-> NitShort, valor_total |-> 1]
InvoiceNoNit == [numero_factura |-> "F3", valor_total |-> 1]
InvoiceNoNumber == [nit_cliente |-> NitShort, valor_total |-> 1]

Invoices == {InvoiceValid, InvoiceShortNit, InvoiceNoNit, InvoiceNoNumber}

\* The dictionaries json.loads may give for a reply: the empty one, one
\* without the facturas key, and every list of up to MaxFacturas invoices
\* with its summary.
EmptyDict == <<>>

Dict(facturas) ==
    [facturas |-> facturas,
     resumen |-> [total_facturas |-> Len(facturas),
                  valor_total_general |-> Len(facturas)]]

Dicts ==
    {EmptyDict, [resumen |-> Dict(<<>>).resumen]}
        \cup {Dict(f) : f \in UNION {[1..n -> Invoices] : n \in 0..MaxFacturas}}

\* Lines 187-193: the default of an extraction that gave nothing.
DefaultData ==
    [facturas |-> <<>>,
     resumen |-> [total_facturas |-> 0, valor_total_general |-> 0]]

\* The values of max_retries a caller may pass.
RetryChoices == (-1)..MaxRetries

\* Line 158: the invoice fails the check of its NIT.
InvalidNit(f) == Len(get(f, "nit_cliente", <<>>)) < MinNitLen

\* Lines 155-159: the list comprehension; it raises KeyError for an invoice
\* that fails the check and has no numero_factura.
invalid_nits(facturas) ==
    LET Bad(f) == InvalidNit(f) IN
    [i \in 1..Len(SelectSeq(facturas, Bad)) |->
        SelectSeq(facturas, Bad)[i].numero_factura]

ValidationRaises(facturas) ==
    \E i \in 1..Len(facturas) :
        InvalidNit(facturas[i]) /\ "numero_factura" \notin DOMAIN facturas[i]

\* The break taken for any list of invoices that is not empty.
Breaks_nonempty(d) == Len(get(d, "facturas", <<>>)) > 0

\* Lines 150-167: the attempt leaves the loop by its break.
Breaks(d) ==
    LET facturas == get(d, "facturas", <<>>) IN
    /\ Len(facturas) > 0
    /\ ~ValidationRaises(facturas)
    /\ invalid_nits(facturas) = <<>>

\* The locals of extract_invoices_from_excel at its entry (lines 127-128).
Enter(retries) ==
    /\ max_retries' = retries
    /\ current_try' = 0
    /\ data' = <<>>
    /\ result' = <<>>
    /\ attempts' = <<>>
    /\ returned' = <<>>
    /\ at' = "loop"

\* A direct call of extract_invoices_from_excel.
CallExtract(retries) ==
    /\ at = "idle"
    /\ Enter(retries)
    /\ UNCHANGED <<excel_files, file_idx, total_processed, total_facturas,
                   failed_files, saved>>
    /\ UNCHANGED codes_vars

\* Lines 134-144 and 179-182: extract_structured_data raises.
AttemptRaises ==
    /\ at = "loop"
    /\ max_retries > current_try
    /\ attempts' = Append(attempts, "exception")
    /\ current_try' = current_try + 1
    /\ UNCHANGED <<excel_files, file_idx, total_processed, total_facturas,
                   failed_files, saved, at, max_retries, data, result,
                   returned>>
    /\ UNCHANGED codes_vars

\* Lines 134-146 and 173-177: extract_structured_data returns success =
\* False.
AttemptFails ==
    /\ at = "loop"
    /\ max_retries > current_try
    /\ attempts' = Append(attempts, "failure")
    /\ result' = [success |-> FALSE, error |-> ErrorText]
    /\ current_try' = current_try + 1
    /\ UNCHANGED <<excel_files, file_idx, total_processed, total_facturas,
                   failed_files, saved, at, max_retries, data, returned>>
    /\ UNCHANGED codes_vars

\* Lines 134-172: extract_structured_data returns success = True with the
\* dictionary d.  data is assigned before the validation; the attempt
\* breaks out of the loop, or counts as a try (no invoice, an invalid NIT,
\* or an exception raised by the validation and caught at line 179).
AttemptSucceeds(d) ==
    /\ at = "loop"
    /\ max_retries > current_try
    /\ attempts' = Append(attempts, "success")
    /\ result' = [success |-> TRUE, data |-> d]
    /\ data' = <<d>>
    /\ IF Breaks(d)
       THEN /\ at' = "after_loop"
            /\ UNCHANGED current_try
       ELSE /\ current_try' = current_try + 1
            /\ UNCHANGED at
    /\ UNCHANGED <<excel_files, file_idx, total_processed, total_facturas,
                   failed_files, saved, max_retries, returned>>
    /\ UNCHANGED codes_vars

\* Line 134: the condition of the while is false.
ExitLoop ==
    /\ at = "loop"
    /\ ~(max_retries > current_try)
    /\ at' = "after_loop"
    /\ UNCHANGED <<excel_files, file_idx, total_processed, total_facturas,
                   failed_files, saved, max_retries, current_try, data,
                   result, attempts, returned>>
    /\ UNCHANGED codes_vars

\* Lines 184-196: the default for a data that is not true.
OrDefault(v) == IF ~Truthy(v) THEN <<DefaultData>> ELSE v

\* Lines 184-196: extract_invoices_from_excel returns, to its direct caller
\* or to line 236 of process_multiple_excel_files.
ReturnData ==
    /\ at = "after_loop"
    /\ data' = OrDefault(data)
    /\ returned' = OrDefault(data)
    /\ at' = IF file_idx > 0 THEN "extracted" ELSE "returned"
    /\ UNCHANGED <<excel_files, file_idx, total_processed, total_facturas,
                   failed_files, saved, max_retries, current_try, result,
                   attempts>>
    /\ UNCHANGED codes_vars

\* A path that exists and ends in .xlsx, and one that does not exist.
FileGood == [path |-> "a.xlsx", exists |-> TRUE]
FileMissing == [path |-> "b.xlsx", exists |-> FALSE]

FileLists == UNION {[1..n -> {FileGood, FileMissing}] : n \in 1..MaxFiles}

\* Lines 27-37; every path of the model has an Excel extension.
validate_excel_file(f) == f.exists

\* process_multiple_excel_files, lines 215-224.
ProcessFiles(files) ==
    /\ at = "idle"
    /\ excel_files' = files
    /\ file_idx' = 1
    /\ total_processed' = 0
    /\ total_facturas' = 0
    /\ failed_files' = <<>>
    /\ saved' = <<>>
    /\ at' = "files"
    /\ UNCHANGED <<max_retries, current_try, data, result, attempts,
                   returned>>
    /\ UNCHANGED codes_vars

\* Lines 226-236: the next file of the list is refused by
\* validate_excel_file, or handed to extract_invoices_from_excel with the
\* default max_retries.
NextFile ==
    /\ at = "files"
    /\ file_idx <= Len(excel_files)
    /\ IF ~validate_excel_file(excel_files[file_idx])
       THEN /\ failed_files' = Append(failed_files, excel_files[file_idx])
            /\ file_idx' = file_idx + 1
            /\ UNCHANGED <<at, max_retries, current_try, data, result,
                           attempts, returned>>
       ELSE /\ Enter(DefaultRetries)
            /\ UNCHANGED <<file_idx, failed_files>>
    /\ UNCHANGED <<excel_files, total_processed, total_facturas, saved>>
    /\ UNCHANGED codes_vars

\* Line 238: the returned value is true and has invoices.
HasInvoices(v) == Truthy(v) /\ Len(get(v[1], "facturas", <<>>)) > 0

\* Lines 238-259: the returned data is dumped and the file counted as
\* processed, or the file is listed as failed.
Save ==
    /\ at = "extracted"
    /\ IF HasInvoices(returned)
       THEN /\ total_facturas' = total_facturas + Len(returned[1].facturas)
            /\ saved' = Append(saved, [file |-> excel_files[file_idx],
                                       data |-> returned[1]])
            /\ total_processed' = total_processed + 1
            /\ UNCHANGED failed_files
       ELSE /\ failed_files' = Append(failed_files, excel_files[file_idx])
            /\ UNCHANGED <<total_facturas, saved, total_processed>>
    /\ file_idx' = file_idx + 1
    /\ at' = "files"
    /\ UNCHANGED <<excel_files, max_retries, current_try, data, result,
                   attempts, returned>>
    /\ UNCHANGED codes_vars

\* Lines 239-250 and 261-263: open or json.dump raises; the invoices are
\* already counted and the file is listed as failed.
SaveRaises ==
    /\ at = "extracted"
    /\ HasInvoices(returned)
    /\ total_facturas' = total_facturas + Len(returned[1].facturas)
    /\ failed_files' = Append(failed_files, excel_files[file_idx])
    /\ file_idx' = file_idx + 1
    /\ at' = "files"
    /\ UNCHANGED <<excel_files, total_processed, saved, max_retries,
                   current_try, data, result, attempts, returned>>
    /\ UNCHANGED codes_vars

\* Lines 265-283: the loop is over; summary and return.
Summary ==
    /\ at = "files"
    /\ file_idx > Len(excel_files)
    /\ at' = "summary"
    /\ UNCHANGED <<excel_files, file_idx, total_processed, total_facturas,
                   failed_files, saved, max_retries, current_try, data,
                   result, attempts, returned>>
    /\ UNCHANGED codes_vars

\* A step of a running extract_invoices_from_excel: the call of
\* extract_structured_data comes back in one of its three ways, the loop
\* ends, the function returns.
ExtractStep ==
    \/ AttemptRaises
    \/ AttemptFails
    \/ \E d \in Dicts : AttemptSucceeds(d)
    \/ ExitLoop
    \/ ReturnData

NextExtract ==
    \/ \E retries \in RetryChoices : CallExtract(retries)
    \/ \E files \in FileLists : ProcessFiles(files)
    \/ ExtractStep
    \/ NextFile
    \/ Save
    \/ SaveRaises
    \/ Summary

InitExtract ==
    /\ inputFile = <<>>
    /\ InitState

\* The calls of excel_radication_processor.py; a call of
\* extract_structured_data that was made comes back.
SpecExtract == InitExtract /\ [][NextExtract]_vars /\ WF_vars(ExtractStep)

\* ================================================================= claims

\* The resolver was called for item k of the queue in this invocation.
Queried(k) ==
    /\ fut[k].st \in {"inflight", "done", "consumed"}
    /\ Classify(lines[k].line) = "query"

\* The invocation entered its batch loop with max_workers >= 1.
InLoop == Running \/ (pc = "done" /\ ending = "summary" /\ max_workers >= 1)

IsPrefix(s, t) == Len(s) <= Len(t) /\ SubSeq(t, 1, Len(s)) = s

\* The number of positions of seq whose original_line is l.
Occurrences(seq, l) ==
    Cardinality({i \in 1..Len(seq) : seq[i].original_line = l})

\* C1. Idempotent resumption: over at most two runs of
\* process_codes_to_solve on the same input and ledger, with a resolver that
\* always succeeds and nothing else failing, every origin_line is sent to
\* the resolver at most once in all, and a second run that follows a
\* completed first run sends nothing.
C1_IdempotentResumption ==
    (clean /\ ops <= 2) =>
        /\ \A l \in OriginLines : calls[l] <= 1
        /\ ops = 2 => \A k \in DOMAIN fut : ~Queried(k)

\* C2. Skip-set correctness: in a run of process_codes_to_solve, no line of
\* the pending queue strips to the stripped original_line of a loaded entry
\* without error; only lines of the pending queue are given to workers.
C2_SkipSetCorrect ==
    op = "process" =>
        \A i \in 1..Len(existing_results) :
            existing_results[i].error = None =>
                \A k \in 1..Len(lines) :
                    strip(lines[k].line) #
                        strip(existing_results[i].original_line)

\* A run in progress that skipped a stored success whose line is in the
\* input, and has another line at the resolver.
C2_Witness ==
    /\ op = "process"
    /\ \E i \in 1..Len(existing_results) :
          /\ existing_results[i].error = None
          /\ existing_results[i].original_line \in OriginLines
    /\ \E k \in DOMAIN fut : fut[k].st = "inflight"

\* The ledger a retry pass holds keeps the loaded ledger's shape: the same
\* length, the same original_line at every position, and the loaded entry at
\* every position that had no error.
SameShape(ledger) ==
    /\ Len(ledger) = Len(existing_results)
    /\ \A i \in 1..Len(existing_results) :
          /\ ledger[i].original_line = existing_results[i].original_line
          /\ existing_results[i].error = None =>
                ledger[i] = existing_results[i]

\* C3. Retry in place: throughout the batch loop of retry_failed_codes and
\* at its end, the ledger in memory and every parseable ledger on disk have
\* the length of the loaded ledger, the loaded entry at every position that
\* was not selected, and the same line at every position.
C3_RetryInPlace ==
    (op = "retry" /\ InLoop) =>
        /\ SameShape(results)
        /\ Loadable(ledgerFile) => SameShape(ledgerFile.recs)

\* A finished retry pass that replaced an entry by a success on disk, next
\* to an entry it did not select.
C3_Witness ==
    /\ op = "retry"
    /\ pc = "done"
    /\ ending = "summary"
    /\ Loadable(ledgerFile)
    /\ ledgerFile.recs = results
    /\ \E i, j \in 1..Len(existing_results) :
          /\ existing_results[i].error = None
          /\ existing_results[j].error # None
          /\ results[j].error = None

InFlight == {k \in DOMAIN fut : fut[k].st = "inflight"}

\* C4. Concurrency bound: with max_workers >= 1, at most max_workers
\* resolver calls are in flight at any time of a run or a retry pass.
C4_ConcurrencyBound ==
    (Running /\ max_workers >= 1) => Cardinality(InFlight) <= max_workers

\* Two calls in flight at once under max_workers = 2.
C4_Witness ==
    /\ Running
    /\ max_workers = 2
    /\ Cardinality(InFlight) = 2

\* The 0-based number of the batch that holds position k of the queue.
ChunkOf(k) == (k - 1) \div max_workers

\* C5. Chunk barrier: an item of a later chunk is submitted only when every
\* item of every earlier chunk has finished its call.
C5_ChunkBarrier ==
    (Running /\ max_workers >= 1) =>
        \A j, k \in DOMAIN fut :
            (ChunkOf(j) < ChunkOf(k) /\ fut[k].st # "pending") =>
                fut[j].st \in {"done", "consumed"}

\* A second chunk at the resolver after a first chunk of two items.
C5_Witness ==
    /\ Running
    /\ max_workers = 2
    /\ \E k \in DOMAIN fut : ChunkOf(k) = 1 /\ fut[k].st = "inflight"
    /\ \A j \in DOMAIN fut : ChunkOf(j) = 0 => Queried(j)

\* The entries a run of process_codes_to_solve has added to those it loaded.
Appended == SubSeq(results, Len(existing_results) + 1, Len(results))

\* The stripped lines of the pending queue, as entries would carry them.
QueueLines == [k \in 1..Len(lines) |-> [original_line |-> strip(lines[k].line)]]

\* C6. Per-item failure isolation: a run of process_codes_to_solve that
\* reaches its summary has kept the loaded entries and added exactly one
\* entry per pending item, whichever calls failed or raised; an added entry
\* with an error has no found_code; and the ledger on disk holds all of them
\* unless a write failed.
C6_FailureIsolation ==
    (op = "process" /\ pc = "done" /\ ending = "summary" /\ max_workers >= 1)
    =>  /\ IsPrefix(existing_results, results)
        /\ Len(results) = Len(existing_results) + Len(lines)
        /\ \A l \in OriginLines :
              Occurrences(Appended, l) = Occurrences(QueueLines, l)
        /\ \A i \in 1..Len(results) :
              results[i].error # None => results[i].found_code = None
        /\ write_failures = 0 =>
              (Loadable(ledgerFile) /\ ledgerFile.recs = results)

\* A finished run in which a resolver failure was recorded before a success
\* of the same run.
C6_Witness ==
    /\ op = "process"
    /\ pc = "done"
    /\ ending = "summary"
    /\ \E i, j \in 1..Len(Appended) :
          /\ i < j
          /\ Appended[i].error = ErrorText
          /\ Appended[j].error = None

\* C7. One record per work item: a parseable ledger on disk never holds two
\* entries with the same original_line; stated for input files whose lines
\* are all different and for invocations that were not interrupted and
\* whose writes did not fail.
C7_OneRecordPerLine ==
    (/\ Loadable(ledgerFile)
     /\ crashes = 0
     /\ write_failures = 0
     /\ \A i, j \in 1..Len(inputFile) :
           i # j => strip(inputFile[i]) # strip(inputFile[j]))
    => \A i, j \in 1..Len(ledgerFile.recs) :
          i # j =>
             ledgerFile.recs[i].original_line # ledgerFile.recs[j].original_line

\* C8. Ledger corruption is fatal before any work: an invocation that found
\* an unparseable ledger calls the resolver for nothing and leaves the file
\* as it found it.
C8_CorruptLedgerFatal ==
    load_failed =>
        /\ \A k \in DOMAIN fut : ~Queried(k)
        /\ pc # "write"
        /\ ~Loadable(ledgerFile)

\* What a later invocation would start from: the entries, or a load error.
Reload(f) ==
    IF ~f.exists THEN [ok |-> TRUE, recs |-> <<>>]
    ELSE IF f.closed THEN [ok |-> TRUE, recs |-> f.recs]
    ELSE [ok |-> FALSE, recs |-> <<>>]

\* C9. Crash-safe persist: at every point of a write over a parseable
\* ledger, where an interruption leaves the disk as it is, reloading gives
\* what the file gave before the write began.
C9_CrashSafePersist ==
    (pc = "write" /\ Loadable(before_open)) =>
        Reload(ledgerFile) = Reload(before_open)

\* C10. Crash between writes: in a run of process_codes_to_solve whose
\* writes did not fail, at every point between two writes (after the first
\* one) the file on disk is exactly the loaded entries followed by the
\* entries added so far, one per completed item.
C10_CrashBetweenWrites ==
    (op = "process" /\ pc = "batch" /\ count >= 1 /\ write_failures = 0)
    =>  /\ Loadable(ledgerFile)
        /\ ledgerFile.recs = results
        /\ IsPrefix(existing_results, results)
        /\ Len(results) = Len(existing_results) + count

\* Between two writes of a run that loaded entries: one entry added and
\* written, another item still at the resolver.
C10_Witness ==
    /\ op = "process"
    /\ pc = "batch"
    /\ count = 1
    /\ write_failures = 0
    /\ existing_results # <<>>
    /\ Loadable(ledgerFile)
    /\ ledgerFile.recs = results
    /\ \E k \in DOMAIN fut : fut[k].st = "inflight"

\* A later ledger keeps an earlier one: every position of the earlier one is
\* still there with the same entry, or held a failed entry and now holds an
\* entry of the same line.
Kept(old, new) ==
    /\ Len(old) <= Len(new)
    /\ \A i \in 1..Len(old) :
        \/ new[i] = old[i]
        \/ /\ old[i].error # None
           /\ new[i].original_line = old[i].original_line

\* A step that completes a ledger write.
WriteCompletes == pc = "write" /\ pc' = "batch" /\ Loadable(ledgerFile')

\* C11. No persisted outcome is lost: over runs and retry passes that may be
\* interrupted at any step and followed by a fresh invocation, with no
\* failing write, every completed write keeps all the entries of the
\* completed write before it (a failed entry may give way to an entry of the
\* same line at the same position).
C11_NoOutcomeLost ==
    [][(WriteCompletes /\ write_failures = 0)
            => Kept(persisted, ledgerFile'.recs)]_vars

\* The ledger as the last completed open-and-dump left it: inside a write,
\* the file as it was before the open.
Disk == IF pc = "write" THEN before_open ELSE ledgerFile

\* The ledger positions that hold the entries of the queue items before
\* item k's chunk: the positions those items were read from (retry), or the
\* positions after the loaded entries, one per item (process).
EarlierPositions(k) ==
    IF op = "retry"
    THEN {lines[j].idx : j \in {j \in DOMAIN fut : ChunkOf(j) < ChunkOf(k)}}
    ELSE (Len(existing_results) + 1)..
            (Len(existing_results) + ChunkOf(k) * max_workers)

Changed(old, new) == {i \in 1..Len(old) : new[i] # old[i]}

\* What a completed write of an invocation owes to the completed write
\* before it in the same invocation: every entry is still there, and when
\* no write failed in between exactly one completion came on top.
ContainsEarlierWrite(old, new) ==
    IF op = "retry"
    THEN /\ Len(new) = Len(old)
         /\ \A i \in Changed(old, new) :
                /\ old[i].error # None
                /\ new[i].original_line = old[i].original_line
         /\ write_failures = 0 => Cardinality(Changed(old, new)) <= 1
    ELSE /\ IsPrefix(old, new)
         /\ write_failures = 0 => Len(new) = Len(old) + 1

\* C13. Single-writer ledger: while the batch loop runs with writes that do
\* not fail, the entries recorded in memory are the entries written plus at
\* most the one whose write is in progress; and every completed write of an
\* invocation contains the entries of the completed write before it.
C13_SingleWriter ==
    /\ [](  (Running /\ max_workers >= 1 /\ write_failures = 0)
            => count = writes + (IF pc = "write" THEN 1 ELSE 0))
    /\ [][(WriteCompletes /\ writes >= 1)
            => ContainsEarlierWrite(persisted, ledgerFile'.recs)]_vars

\* Both completions of a chunk of two concurrent items have been written,
\* one after the other, on top of loaded entries.
C13_Witness ==
    /\ op = "process"
    /\ pc = "batch"
    /\ max_workers = 2
    /\ batch_start = 0
    /\ writes = 2
    /\ existing_results # <<>>
    /\ Loadable(ledgerFile)
    /\ Len(ledgerFile.recs) = Len(existing_results) + 2

\* C14. Retry selects exactly the failed subset: in a retry pass the queue
\* holds exactly the ledger positions whose entry has an error, each once,
\* in order, each with the line stored at its own position; only positions
\* of yielded items differ from the loaded ledger, each still holding an
\* entry of its line; and at the end every item has been yielded once.
C14_RetrySelectsFailed ==
    (op = "retry" /\ InLoop) =>
        /\ {lines[k].idx : k \in 1..Len(lines)}
             = {i \in 1..Len(existing_results) :
                    existing_results[i].error # None}
        /\ \A k, j \in 1..Len(lines) : k < j => lines[k].idx < lines[j].idx
        /\ \A k \in 1..Len(lines) :
               lines[k].line = existing_results[lines[k].idx].original_line
        /\ Len(results) = Len(existing_results)
        /\ \A i \in Changed(existing_results, results) :
               \E k \in DOMAIN fut :
                   /\ fut[k].st = "consumed"
                   /\ lines[k].idx = i
                   /\ results[i].original_line = lines[k].line
        /\ count = Cardinality({k \in DOMAIN fut : fut[k].st = "consumed"})
        /\ pc = "done" => count = Len(lines)

\* A retry pass over a ledger whose first entry succeeded and whose second
\* failed: the one queue item carries position 2 and its new, succeeded
\* entry is at position 2.
C14_Witness ==
    /\ op = "retry"
    /\ pc = "done"
    /\ ending = "summary"
    /\ Len(existing_results) >= 2
    /\ existing_results[1].error = None
    /\ existing_results[2].error # None
    /\ lines[1].idx = 2
    /\ fut[1].st = "consumed"
    /\ results[2].error = None
    /\ results[1] = existing_results[1]

\* C15. Retry with nothing to retry is a no-op: a retry pass that loaded a
\* ledger without any failed entry has returned at once, with no future
\* submitted, no resolver call, no entry recorded, no write, and the file
\* as it was loaded.
C15_RetryNothingNoOp ==
    (/\ op = "retry"
     /\ ending # "error"
     /\ \A i \in 1..Len(existing_results) : existing_results[i].error = None)
    =>  /\ pc = "done"
        /\ ending = "early"
        /\ fut = <<>>
        /\ lines = <<>>
        /\ count = 0
        /\ writes = 0
        /\ Loadable(ledgerFile)
        /\ ledgerFile.recs = existing_results
        /\ persisted = existing_results

\* A retry pass has returned over a ledger of two succeeded entries.
C15_Witness ==
    /\ op = "retry"
    /\ pc = "done"
    /\ ending = "early"
    /\ Len(existing_results) = 2
    /\ \A i \in 1..2 : existing_results[i].error = None
    /\ ledgerFile.recs = existing_results

\* C16. Two-item scenario: from no ledger, with input lines A1<TAB>Foo and
\* A2<TAB>Bar, concurrency 2 and writes that do not fail, a finished run
\* whose resolver answered for Foo and failed for Bar leaves a ledger of
\* exactly two entries, Foo's with error None and the response as
\* found_code, Bar's with an error and found_code None; an uninterrupted
\* retry pass after it whose resolver answers for Bar leaves a ledger of
\* two entries, both with error None.
C16_TwoItemScenario ==
    /\ (/\ op = "process" /\ ops = 1 /\ max_workers = 2
        /\ pc = "done" /\ ending = "summary" /\ write_failures = 0)
       => /\ Loadable(ledgerFile)
          /\ Len(ledgerFile.recs) = 2
          /\ \E i, j \in 1..2 :
              /\ i # j
              /\ ledgerFile.recs[i].product_name = Foo
              /\ ledgerFile.recs[i].error = None
              /\ ledgerFile.recs[i].found_code = Response
              /\ ledgerFile.recs[j].product_name = Bar
              /\ ledgerFile.recs[j].error # None
              /\ ledgerFile.recs[j].found_code = None
    /\ (/\ op = "retry" /\ ops = 2 /\ max_workers = 2 /\ crashes = 0
        /\ pc = "done" /\ ending = "summary" /\ write_failures = 0)
       => /\ Loadable(ledgerFile)
          /\ Len(ledgerFile.recs) = 2
          /\ {ledgerFile.recs[i].product_name : i \in 1..2} = {Foo, Bar}
          /\ \A i \in 1..2 :
              /\ ledgerFile.recs[i].error = None
              /\ ledgerFile.recs[i].found_code = Response

\* The retry pass of the scenario has ended: it loaded one succeeded and one
\* failed entry and the file now holds two succeeded ones.
C16_Witness ==
    /\ op = "retry" /\ ops = 2 /\ max_workers = 2 /\ crashes = 0
    /\ pc = "done" /\ ending = "summary" /\ write_failures = 0
    /\ Len(existing_results) = 2
    /\ \E i \in 1..2 : existing_results[i].error # None
    /\ \E i \in 1..2 : existing_results[i].error = None
    /\ Len(lines) = 1
    /\ \A i \in 1..2 : ledgerFile.recs[i].error = None

\* A stripped, non-empty line with neither a tab nor a space: one field.
Malformed(l) == l # <<>> /\ ~Contains(l, TAB) /\ ~Contains(l, SP)

\* The entries a run of process_codes_to_solve has put on disk after the
\* loaded ones.
AppendedOnDisk ==
    SubSeq(ledgerFile.recs, Len(existing_results) + 1, Len(ledgerFile.recs))

\* C17. Malformed line: when a run of process_codes_to_solve whose writes
\* did not fail has ended, the ledger on disk holds one added entry per
\* pending line, malformed or not; the entry of a line with fewer than two
\* fields has an empty product name, no found_code and the format error,
\* and the entry of every other line carries the outcome of a resolver call.
C17_MalformedLine ==
    (/\ op = "process" /\ pc = "done" /\ ending = "summary"
     /\ max_workers >= 1 /\ write_failures = 0)
    =>  /\ Loadable(ledgerFile)
        /\ \A l \in OriginLines :
              Occurrences(AppendedOnDisk, l) = Occurrences(QueueLines, l)
        /\ \A i \in 1..Len(AppendedOnDisk) :
            LET e == AppendedOnDisk[i] IN
            IF Malformed(e.original_line)
            THEN /\ e.product_name = <<>>
                 /\ e.found_code = None
                 /\ e.error = "Formato invalido"
                 /\ e.original_code = e.original_line
            ELSE \/ e.error = None /\ e.found_code = Response
                 \/ e.error = ErrorText /\ e.found_code = None

\* A finished run over a malformed line and a valid one: both are on disk,
\* the malformed one with the format error, the valid one resolved.
C17_Witness ==
    /\ op = "process" /\ pc = "done" /\ ending = "summary"
    /\ write_failures = 0
    /\ Loadable(ledgerFile)
    /\ Len(lines) >= 2
    /\ \E i, j \in 1..Len(AppendedOnDisk) :
          /\ Malformed(AppendedOnDisk[i].original_line)
          /\ AppendedOnDisk[i].error = "Formato invalido"
          /\ ~Malformed(AppendedOnDisk[j].original_line)
          /\ AppendedOnDisk[j].error = None

AllWhitespace(s) == \A q \in 1..Len(s) : s[q] \in Whitespace

\* t is s without its leading and trailing whitespace.
IsStripOf(t, s) ==
    IF t = <<>> THEN AllWhitespace(s)
    ELSE /\ t[1] \notin Whitespace
         /\ t[Len(t)] \notin Whitespace
         /\ \E i \in 1..Len(s) :
              /\ i + Len(t) - 1 <= Len(s)
              /\ SubSeq(s, i, i + Len(t) - 1) = t
              /\ \A q \in 1..(i - 1) : s[q] \in Whitespace
              /\ \A q \in (i + Len(t))..Len(s) : s[q] \in Whitespace

\* Entry e is what the claim says of raw line `raw`: its line is the
\* stripped raw line, not empty; code and product name are the text before
\* and after the first tab, or with no tab the first space, each stripped;
\* with neither, the entry is the one of a line with fewer than two fields.
ParsedAs(raw, e) ==
    LET l == e.original_line
        sep == IF \E q \in 1..Len(l) : l[q] = TAB THEN TAB ELSE SP
    IN  /\ l # <<>>
        /\ IsStripOf(l, raw)
        /\ IF \E p \in 1..Len(l) : l[p] = sep
           THEN \E p \in 1..Len(l) :
                  /\ l[p] = sep
                  /\ \A q \in 1..(p - 1) : l[q] # sep
                  /\ IsStripOf(e.original_code, SubSeq(l, 1, p - 1))
                  /\ IsStripOf(e.product_name, SubSeq(l, p + 1, Len(l)))
                  /\ e.error # "Formato invalido"
           ELSE /\ e.original_code = l
                /\ e.product_name = <<>>
                /\ e.error = "Formato invalido"

NonBlank(file) == {i \in 1..Len(file) : ~AllWhitespace(file[i])}

\* C18. Parser: a line that is empty after stripping yields no item (it is
\* not in the queue, and process_single_code would return None for it) and
\* no entry, appended or counted; the entry of any other line carries the
\* stripped line and, as code and product name, the two stripped parts of a
\* split on the first tab if the line has one, else on the first space.
C18_Parser ==
    /\ \A i \in 1..Len(inputFile) :
          AllWhitespace(inputFile[i]) <=> Classify(inputFile[i]) = "none"
    /\ (op = "process" /\ InLoop) =>
          /\ \A k \in 1..Len(lines) : ~AllWhitespace(lines[k].line)
          /\ Len(lines) <= Cardinality(NonBlank(inputFile))
          /\ existing_results = <<>> =>
                Len(lines) = Cardinality(NonBlank(inputFile))
          /\ Len(results) = Len(existing_results) + count
          /\ pc = "done" => count = Len(lines)
          /\ \A i \in (Len(existing_results) + 1)..Len(results) :
                \E k \in 1..Len(lines) : ParsedAs(lines[k].line, results[i])
    /\ \A k \in DOMAIN fut :
          /\ fut[k].st = "done" => fut[k].res # <<>>
          /\ fut[k].res # <<>> => ParsedAs(lines[k].line, fut[k].res[1])

\* A line with a space and then a tab has been through the resolver:
\* its entry has the text before the first tab as code although a space
\* comes earlier in the line.
C18_Witness ==
    /\ op = "process"
    /\ \E k \in DOMAIN fut :
          /\ fut[k].res # <<>>
          /\ lines[k].line = <<"a", SP, "a", TAB, "a", NL>>
          /\ fut[k].res[1].original_code = <<"a", SP, "a">>
          /\ fut[k].res[1].product_name = <<"a">>
          /\ fut[k].res[1].error = None

\* The loaded ledger is, position for position, the beginning of a later
\* one, failed positions replaced by a retry pass apart.
PrefixOf(loaded, later) ==
    IF op = "retry"
    THEN /\ Len(later) = Len(loaded)
         /\ \A i \in Changed(loaded, later) : loaded[i].error # None
    ELSE IsPrefix(loaded, later)

\* C19. Insertion order: in every invocation the ledger loaded at the start
\* is position for position the beginning of the ledger in memory and of
\* every ledger the invocation has written (a retry pass may have replaced
\* failed positions); and over invocations that are not interrupted and
\* whose writes do not fail, every completed write keeps each entry of the
\* write before it at its position.
C19_InsertionOrder ==
    /\ [](InLoop =>
            /\ PrefixOf(existing_results, results)
            /\ Loadable(ledgerFile) =>
                  PrefixOf(existing_results, ledgerFile.recs))
    /\ [][(WriteCompletes /\ crashes = 0 /\ write_failures = 0)
            => Kept(persisted, ledgerFile'.recs)]_vars

\* A second run has ended: it loaded a ledger and wrote a longer one whose
\* beginning is the loaded one.
C19_Witness ==
    /\ op = "process" /\ ops = 2 /\ crashes = 0 /\ write_failures = 0
    /\ pc = "done" /\ ending = "summary"
    /\ Len(existing_results) >= 1
    /\ Loadable(ledgerFile)
    /\ Len(ledgerFile.recs) > Len(existing_results)
    /\ IsPrefix(existing_results, ledgerFile.recs)
    /\ persisted = ledgerFile.recs

\* C20. Succeeded is terminal: in an invocation whose load of the ledger
\* did not fail, every loaded entry with error None is at its position,
\* unchanged, in the ledger in memory; and every write such an invocation
\* completes keeps at its position every entry with error None of the
\* completed write before it, whichever invocation made that one.
C20_SucceededTerminal ==
    /\ []((InLoop /\ ~load_failed) =>
            \A i \in 1..Len(existing_results) :
                existing_results[i].error = None =>
                    /\ i <= Len(results)
                    /\ results[i] = existing_results[i])
    /\ [][(WriteCompletes /\ ~load_failed) =>
            \A i \in 1..Len(persisted) :
                persisted[i].error = None =>
                    /\ i <= Len(ledgerFile'.recs)
                    /\ ledgerFile'.recs[i] = persisted[i]]_vars

\* A retry pass over a ledger with a succeeded and a failed entry has
\* written: the succeeded entry is where it was, another position changed.
C20_Witness ==
    /\ op = "retry"
    /\ ~load_failed
    /\ pc = "batch"
    /\ writes >= 1
    /\ Loadable(ledgerFile)
    /\ \E i \in 1..Len(existing_results) :
          /\ existing_results[i].error = None
          /\ ledgerFile.recs[i] = existing_results[i]
    /\ Changed(existing_results, ledgerFile.recs) # {}

\* C21. No transition from failed to succeeded outside retry: in a run of
\* process_codes_to_solve (behaviours with no interruption and no failing
\* write), no entry the run adds with error None is for a line whose entry
\* in the loaded ledger is a failed one.
C21_NoFailedToSucceededInProcess ==
    (op = "process" /\ InLoop /\ crashes = 0 /\ write_failures = 0) =>
        \A i \in (Len(existing_results) + 1)..Len(results) :
            results[i].error = None =>
                \A j \in 1..Len(existing_results) :
                    existing_results[j].original_line = results[i].original_line
                        => existing_results[j].error = None

\* The queue items whose call of the resolver starts in this step, for the
\* stripped line l.
CallStarts(l) ==
    {k \in DOMAIN fut :
        /\ fut'[k].st = "inflight"
        /\ fut[k].st # "inflight"
        /\ strip(lines[k].line) = l}

\* C22. No automatic re-attempt inside a run: inside the batch loop of an
\* invocation a future that has finished never runs again, a call of the
\* resolver starts only for a future that has not run yet, and each start
\* is one call; so in the first invocation the calls made for a line are as
\* many as the queue items of that line that reached the resolver.
C22_NoReattempt ==
    /\ []((ops = 1 /\ crashes = 0 /\ op # "none") =>
            \A l \in OriginLines :
                calls[l] = Cardinality({k \in DOMAIN fut :
                              Queried(k) /\ strip(lines[k].line) = l}))
    /\ [][(Running /\ Running') =>
            /\ \A k \in DOMAIN fut :
                /\ fut[k].st \in {"done", "consumed"} =>
                      fut'[k].st \in {"done", "consumed"}
                /\ fut[k].st = "inflight" =>
                      fut'[k].st \in {"inflight", "done"}
                /\ (fut'[k].st = "inflight" /\ fut[k].st # "inflight") =>
                      fut[k].st = "queued"
            /\ \A l \in OriginLines :
                  calls'[l] = calls[l] + Cardinality(CallStarts(l))]_vars

\* A run has ended in which the only call made for a line failed: one call,
\* one failed entry.
C22_Witness ==
    /\ op = "process" /\ ops = 1
    /\ pc = "done" /\ ending = "summary"
    /\ \E k \in DOMAIN fut :
          /\ Classify(lines[k].line) = "query"
          /\ calls[strip(lines[k].line)] = 1
          /\ \E i \in 1..Len(results) :
                /\ results[i].original_line = strip(lines[k].line)
                /\ results[i].error = ErrorText

\* C23. Write after every Outcome: in an invocation with no failed write,
\* recording an entry leads straight into a write of the ledger; a write
\* that completes leaves on disk the list as it is in memory; and between
\* writes, as at the end, the completed writes are as many as the recorded
\* entries and the file is the list in memory.
C23_WriteAfterEveryOutcome ==
    /\ []((InLoop /\ max_workers >= 1 /\ write_failures = 0) =>
            /\ pc = "write" => writes + 1 = count
            /\ pc # "write" =>
                /\ writes = count
                /\ count >= 1 =>
                      (Loadable(ledgerFile) /\ ledgerFile.recs = results))
    /\ [][(Running /\ count' = count + 1 /\ write_failures' = 0)
            => (pc' = "write" /\ ~Loadable(ledgerFile'))]_vars
    /\ [][(WriteCompletes /\ write_failures = 0) =>
            /\ results' = results
            /\ ledgerFile'.recs = results
            /\ writes' = writes + 1]_vars

\* A retry pass has replaced two entries and written the ledger twice.
C23_Witness ==
    /\ op = "retry"
    /\ pc = "batch"
    /\ write_failures = 0
    /\ count = 2
    /\ writes = 2
    /\ Loadable(ledgerFile)
    /\ ledgerFile.recs = results
    /\ Cardinality(Changed(existing_results, results)) >= 1

Consumed == {k \in DOMAIN fut : fut[k].st = "consumed"}

\* C24. Persistence failure does not stop the batch: whether or not a write
\* failed, every yielded item has its entry in the list in memory, an
\* invocation with items to process ends only at its summary, with every
\* item yielded, and every write that completes puts the whole list in
\* memory on disk, the entries whose own write failed included.
C24_PersistFailureContinues ==
    /\ []((op # "none" /\ max_workers >= 1 /\ lines # <<>>) =>
            /\ count = Cardinality(Consumed)
            /\ op = "process" =>
                  Len(results) = Len(existing_results) + count
            /\ pc = "done" =>
                /\ ending = "summary"
                /\ Consumed = DOMAIN fut
                /\ count = Len(lines))
    /\ [][WriteCompletes =>
            /\ ledgerFile'.recs = results
            /\ op = "process" =>
                  Len(ledgerFile'.recs) = Len(existing_results) + count]_vars

\* In a later chunk, after a write of this run failed, a write has
\* completed: the file holds every entry, more than writes were completed.
C24_Witness ==
    /\ op = "process"
    /\ pc = "batch"
    /\ write_failures = 1
    /\ batch_start > 0
    /\ writes >= 1
    /\ writes < count
    /\ Loadable(ledgerFile)
    /\ ledgerFile.recs = results
    /\ Len(results) = Len(existing_results) + count

\* An invocation starts while the ledger path does not exist.
StartsWithoutLedger(which) ==
    pc = "idle" /\ ~ledgerFile.exists /\ op' = which

\* C25. Missing ledger: process_codes_to_solve started on a ledger path
\* that does not exist loads nothing, reports no load error, and its queue
\* is every non-blank line of the input, in order, with its line number;
\* retry_failed_codes started on such a path returns with its error at
\* once, with no future, no resolver call and no file created.
C25_MissingLedger ==
    /\ [][StartsWithoutLedger("process") =>
            /\ existing_results' = <<>>
            /\ ~load_failed'
            /\ {lines'[k].idx : k \in 1..Len(lines')} = NonBlank(inputFile)
            /\ \A k, j \in 1..Len(lines') :
                  k < j => lines'[k].idx < lines'[j].idx
            /\ \A k \in 1..Len(lines') :
                  lines'[k].line = inputFile[lines'[k].idx]
            /\ ledgerFile' = ledgerFile]_vars
    /\ [][StartsWithoutLedger("retry") =>
            /\ pc' = "done"
            /\ ending' = "error"
            /\ fut' = <<>>
            /\ calls' = calls
            /\ ledgerFile' = ledgerFile]_vars
    /\ []((op = "retry" /\ ending = "error") =>
            /\ pc = "done"
            /\ fut = <<>>
            /\ count = 0
            /\ writes = 0
            /\ ~load_failed => ~ledgerFile.exists)

\* A retry pass has returned with its error on a path that does not exist,
\* over an input that has lines to process.
C25_Witness ==
    /\ op = "retry"
    /\ pc = "done"
    /\ ending = "error"
    /\ ~load_failed
    /\ ~ledgerFile.exists
    /\ NonBlank(inputFile) # {}
    /\ \A l \in OriginLines : calls[l] = 0

\* range(0, n, c): the values batch_start takes for a queue of n items.
Starts(n, c) == {s \in 0..(n - 1) : s % c = 0}

\* C26. Chunk partition: for the queue of n items and max_workers = c >= 1
\* of any invocation in its loop, the batches at the starts 0, c, 2c, ...
\* below n are ceil(n / c) in number, each the c consecutive positions
\* after its start (the last one those that remain), no two share a
\* position and together they are all positions; batch_start is one of the
\* starts and the items submitted so far are those of the batches up to it.
C26_ChunkPartition ==
    (InLoop /\ max_workers >= 1) =>
        LET n == Len(lines)
            c == max_workers
        IN  /\ Cardinality(Starts(n, c)) = (n + c - 1) \div c
            /\ \A s \in Starts(n, c) :
                /\ Batch(n, s, c) = {k \in 1..n : s < k /\ k <= s + c}
                /\ Cardinality(Batch(n, s, c)) = c
                      \/ (s + c >= n /\ Cardinality(Batch(n, s, c)) = n - s)
            /\ \A s, t \in Starts(n, c) :
                  s # t => Batch(n, s, c) \cap Batch(n, t, c) = {}
            /\ UNION {Batch(n, s, c) : s \in Starts(n, c)} = 1..n
            /\ batch_start \in Starts(n, c)
            /\ {k \in DOMAIN fut : fut[k].st # "pending"}
                  = {k \in 1..n : k <= batch_start + c}
            /\ pc = "done" => batch_start + c >= n

\* Three items with max_workers = 2: the second batch, of one item, is
\* running after the first, of two.
C26_Witness ==
    /\ pc = "batch"
    /\ Len(lines) = 3
    /\ max_workers = 2
    /\ batch_start = 2
    /\ fut[1].st = "consumed"
    /\ fut[2].st = "consumed"
    /\ fut[3].st = "queued"

\* C27. Retry eligibility conflates error kinds: a retry pass queues the
\* position of every loaded entry with the format error, as it does the
\* position of every entry that failed at the resolver, and whatever it has
\* done the entry at that position is the one loaded; a run of
\* process_codes_to_solve queues every one-field line of the input, whatever
\* the ledger holds; and an entry of a one-field line, in memory or on
\* disk, always has the format error.
C27_ConflatesErrorKinds ==
    /\ (op = "retry" /\ InLoop) =>
          \A i \in 1..Len(existing_results) :
              /\ existing_results[i].error = ErrorText =>
                    \E k \in 1..Len(lines) : lines[k].idx = i
              /\ existing_results[i].error = "Formato invalido" =>
                    /\ \E k \in 1..Len(lines) : lines[k].idx = i
                    /\ results[i] = existing_results[i]
    /\ (op = "process" /\ InLoop) =>
          \A i \in 1..Len(inputFile) :
              Malformed(strip(inputFile[i])) =>
                  \E k \in 1..Len(lines) : lines[k].idx = i
    /\ \A i \in 1..Len(results) :
          Malformed(results[i].original_line) =>
              results[i].error = "Formato invalido"
    /\ \A i \in 1..Len(persisted) :
          Malformed(persisted[i].original_line) =>
              persisted[i].error = "Formato invalido"

\* A retry pass has ended over a ledger with a malformed-line entry and a
\* resolver failure: both were retried, the first is failed as before, the
\* second succeeded.
C27_Witness ==
    /\ op = "retry"
    /\ pc = "done"
    /\ ending = "summary"
    /\ Len(lines) = 2
    /\ \E i, j \in 1..Len(results) :
          /\ existing_results[i].error = "Formato invalido"
          /\ results[i].error = "Formato invalido"
          /\ existing_results[j].error = ErrorText
          /\ results[j].error = None
    /\ count = 2
    /\ success_count = 1

\* The invocation is at its summary with every item yielded and its entry
\* in the list: after the loaded entries (process) or at the position it
\* was read from (retry); and on disk too when no write failed.
Finished ==
    /\ pc = "done"
    /\ ending = "summary"
    /\ \A k \in DOMAIN fut : fut[k].st = "consumed"
    /\ count = Len(lines)
    /\ IF op = "retry"
       THEN \A k \in 1..Len(lines) :
               results[lines[k].idx].original_line = strip(lines[k].line)
       ELSE /\ Len(results) = Len(existing_results) + Len(lines)
            /\ \A k \in 1..Len(lines) :
                  \E i \in (Len(existing_results) + 1)..Len(results) :
                      results[i].original_line = strip(lines[k].line)
    /\ write_failures = 0 =>
          (ledgerFile.exists /\ ledgerFile.closed /\ ledgerFile.recs = results)

\* C28. Run termination: when threads get to run and every call of the
\* resolver comes back, an invocation with max_workers >= 1 that is not
\* interrupted and has entered its batch loop reaches its summary, and
\* there every item of its queue has been yielded and has its entry in the
\* ledger.
C28_Termination == (Running /\ max_workers >= 1) ~> Finished

\* A run over three lines in batches of two has finished.
C28_Witness ==
    /\ Finished
    /\ op = "process"
    /\ Len(lines) = 3
    /\ max_workers = 2
    /\ batch_start = 2

\* sum(1 for r in results if r.get('error') is None), and its complement.
Succeeded(seq) == Cardinality({i \in 1..Len(seq) : seq[i].error = None})
WithError(seq) == Cardinality({i \in 1..Len(seq) : seq[i].error # None})

\* C29. Reported counts are consistent: at the summary of a run of
\* process_codes_to_solve, processed_count is the number of pending items,
\* the list has the loaded entries plus processed_count, and the succeeded
\* and failed totals add up to its length; at the summary of a retry pass,
\* success_count <= retry_count <= the number of failed positions queued,
\* and the succeeded total is the loaded succeeded total plus success_count.
C29_ReportedCounts ==
    (pc = "done" /\ ending = "summary" /\ max_workers >= 1) =>
        /\ op = "process" =>
            /\ count = Len(lines)
            /\ Len(results) = Len(existing_results) + count
            /\ Succeeded(results) + WithError(results) = Len(results)
        /\ op = "retry" =>
            /\ success_count <= count
            /\ count <= Len(lines)
            /\ Len(lines) = WithError(existing_results)
            /\ Succeeded(results) = Succeeded(existing_results) + success_count
            /\ WithError(results) =
                  WithError(existing_results) - success_count

\* A retry pass over one succeeded and two failed entries has ended with
\* one of the two retried entries succeeded.
C29_Witness ==
    /\ op = "retry"
    /\ pc = "done"
    /\ ending = "summary"
    /\ Len(existing_results) = 3
    /\ Succeeded(existing_results) = 1
    /\ count = 2
    /\ success_count = 1
    /\ Succeeded(results) = 2

\* C30. Ledger order follows chunk order: in a run of process_codes_to_solve
\* the entries added after the loaded ones lie chunk by chunk: the
\* positions of the c-th group of max_workers added entries hold the
\* entries of the yielded items of chunk c, line for line, whatever the
\* order inside the group; so an entry of a chunk lies below every entry of
\* the next.
C30_OrderFollowsChunks ==
    (op = "process" /\ InLoop /\ max_workers >= 1) =>
        /\ \A c \in 0..Len(lines) : \A l \in OriginLines :
              Cardinality({p \in 1..Len(Appended) :
                              /\ (p - 1) \div max_workers = c
                              /\ Appended[p].original_line = l})
                = Cardinality({k \in Consumed :
                              /\ ChunkOf(k) = c
                              /\ strip(lines[k].line) = l})
        /\ \A p \in 1..Len(Appended) : \A k \in Consumed :
              ChunkOf(k) < (p - 1) \div max_workers =>
                  \E q \in 1..(p - 1) :
                      Appended[q].original_line = strip(lines[k].line)

\* A run over three different lines in batches of two has ended: the entry
\* of the second line lies before the entry of the first, and the entry of
\* the third, of the next chunk, after both.
C30_Witness ==
    /\ op = "process"
    /\ pc = "done"
    /\ ending = "summary"
    /\ max_workers = 2
    /\ Len(lines) = 3
    /\ Len(Appended) = 3
    /\ strip(lines[1].line) # strip(lines[2].line)
    /\ Appended[1].original_line = strip(lines[2].line)
    /\ Appended[2].original_line = strip(lines[1].line)
    /\ Appended[3].original_line = strip(lines[3].line)
    /\ strip(lines[3].line) \notin {strip(lines[1].line), strip(lines[2].line)}

\* ---------------------------------------------------------------- C31

\* The resolver reported success for item k in this step.
ReportsSuccess(k) == ResolverSucceeds(k) \/ ResolverAnswersNone(k)

\* C31 (as stated): the entry process_single_code returns has error None
\* exactly when the resolver reported success, a found_code of None
\* whenever its error is not None, and, after a success of the resolver,
\* error None and the response as found_code.  Violated in SpecOutcome:
\* for a success whose response is None the entry carries the TypeError
\* of line 178 as error.
C31_OutcomeWellFormed ==
    [][\A k \in DOMAIN fut :
         /\ (fut[k].st = "inflight" /\ k \in DOMAIN fut'
               /\ fut'[k].st = "done")
            => /\ (fut'[k].res[1].error = None) <=> ReportsSuccess(k)
               /\ fut'[k].res[1].error # None
                    => fut'[k].res[1].found_code = None
               /\ ResolverSucceeds(k)
                    => fut'[k].res[1].found_code = Response
         /\ (fut[k].st = "queued" /\ k \in DOMAIN fut'
               /\ fut'[k].st = "done" /\ fut'[k].res # <<>>)
            => /\ fut'[k].res[1].error # None
               /\ fut'[k].res[1].found_code = None]_vars

\* The rest of the statement, which holds: without the reply that has no
\* text, error None goes with success, and every error with a found_code
\* of None.
C31_TextAnswers ==
    [][\A k \in DOMAIN fut :
         /\ (fut[k].st = "inflight" /\ k \in DOMAIN fut'
               /\ fut'[k].st = "done" /\ ~ResolverAnswersNone(k))
            => /\ (fut'[k].res[1].error = None) <=> ResolverSucceeds(k)
               /\ fut'[k].res[1].error # None
                    => fut'[k].res[1].found_code = None
               /\ ResolverSucceeds(k)
                    => /\ fut'[k].res[1].found_code = Response
                       /\ fut'[k].res[1].error = None
         /\ (fut[k].st = "queued" /\ k \in DOMAIN fut'
               /\ fut'[k].st = "done" /\ fut'[k].res # <<>>)
            => /\ fut'[k].res[1].error # None
               /\ fut'[k].res[1].found_code = None]_vars

\* ---------------------------------------------------------------- C32

\* C32. A structurally invalid line never reaches the resolver: a future
\* whose line has fewer than two fields goes from queued to done with the
\* failed entry of the format error, is never in flight, and its start
\* leaves the calls of the resolver as they were, so no call is ever made
\* for such a line; a blank line is classified as yielding nothing, and a
\* future of a blank line would be done with no entry and no call; only a
\* line of two fields starts a call.
C32_InvalidNeverResolved ==
    /\ [](/\ \A i \in 1..Len(inputFile) :
                AllWhitespace(inputFile[i]) => Classify(inputFile[i]) = "none"
          /\ \A k \in DOMAIN fut :
                Malformed(strip(lines[k].line)) =>
                    /\ fut[k].st # "inflight"
                    /\ calls[strip(lines[k].line)] = 0
                    /\ fut[k].st = "done" =>
                          /\ Len(fut[k].res) = 1
                          /\ fut[k].res[1].error = "Formato invalido"
                          /\ fut[k].res[1].found_code = None
                          /\ fut[k].res[1].original_line
                                = strip(lines[k].line))
    /\ [][\A k \in DOMAIN fut :
            (k \in DOMAIN fut' /\ fut[k].st = "queued"
               /\ fut'[k].st # "queued")
            => LET l == strip(lines[k].line) IN
               IF AllWhitespace(l)
               THEN fut'[k] = [st |-> "done", res |-> <<>>] /\ calls' = calls
               ELSE IF Malformed(l)
               THEN fut'[k].st = "done" /\ calls' = calls
               ELSE /\ fut'[k].st = "inflight"
                    /\ calls'[l] = calls[l] + 1]_vars

\* A line of one field has its failed entry, in a batch in which a call of
\* the resolver has been made for another line, and no call was made for it.
C32_Witness ==
    \E k, j \in DOMAIN fut :
        /\ Malformed(strip(lines[k].line))
        /\ fut[k].st = "done"
        /\ fut[k].res # <<>>
        /\ fut[k].res[1].error = "Formato invalido"
        /\ calls[strip(lines[k].line)] = 0
        /\ fut[j].st = "inflight"
        /\ calls[strip(lines[j].line)] >= 1

\* ---------------------------------------------------------------- C33

\* Entries a and b have the same original_line, original_code and
\* product_name.
SameKey(a, b) ==
    /\ a.original_line = b.original_line
    /\ a.original_code = b.original_code
    /\ a.product_name = b.product_name

\* C33. Retry keeps the key: in a run of retry_failed_codes the entry a
\* future brings back, every entry of the list in memory and every entry
\* of the ledger a write has left has the original_line, original_code and
\* product_name of the entry loaded at its position; parsing the stored,
\* stripped line again gives the same three fields.
C33_RetryKeepsKey ==
    (op = "retry" /\ Running) =>
        /\ \A k \in DOMAIN fut :
              fut[k].res # <<>> =>
                  SameKey(fut[k].res[1], existing_results[lines[k].idx])
        /\ Len(results) = Len(existing_results)
        /\ \A i \in 1..Len(results) :
              SameKey(results[i], existing_results[i])
        /\ Loadable(ledgerFile) =>
              /\ Len(ledgerFile.recs) = Len(existing_results)
              /\ \A i \in 1..Len(ledgerFile.recs) :
                    SameKey(ledgerFile.recs[i], existing_results[i])

\* A retry has written, over the failed entry of a line with a space
\* between its two fields, the entry of a call that succeeded.
C33_Witness ==
    /\ op = "retry" /\ Running
    /\ Loadable(ledgerFile)
    /\ \E i \in 1..Len(ledgerFile.recs) :
          /\ i <= Len(existing_results)
          /\ existing_results[i].error = ErrorText
          /\ ledgerFile.recs[i].error = None
          /\ Contains(ledgerFile.recs[i].original_line, SP)
          /\ ledgerFile.recs[i].product_name # <<>>

\* ---------------------------------------------------------------- C34

\* Every non-blank line of the input file is, stripped, the line of an entry
\* with error None of a ledger that loads.
AllSkipped ==
    \A i \in NonBlank(inputFile) :
        /\ Loadable(ledgerFile)
        /\ \E j \in 1..Len(ledgerFile.recs) :
              /\ ledgerFile.recs[j].error = None
              /\ IsStripOf(ledgerFile.recs[j].original_line, inputFile[i])

\* C34. Empty pending queue leaves the ledger untouched: a run of
\* process_codes_to_solve that starts when every non-blank input line is in
\* the skip-set, or when there is none, returns at once: no future is
\* submitted, no call of the resolver is made and the ledger file is left
\* as it is; and a run that has returned this way has written nothing.
C34_EmptyQueueNoWrite ==
    /\ []((op = "process" /\ ending = "early") =>
            /\ pc = "done"
            /\ fut = <<>>
            /\ count = 0
            /\ writes = 0)
    /\ [][(pc = "idle" /\ op' = "process" /\ ops' = ops + 1 /\ AllSkipped)
          => /\ pc' = "done"
             /\ ending' = "early"
             /\ fut' = <<>>
             /\ calls' = calls
             /\ writes' = 0
             /\ ledgerFile' = ledgerFile
             /\ persisted' = persisted]_vars

\* A second run of process_codes_to_solve has returned before its loop:
\* the ledger holds an entry with error None for each of the two input
\* lines, and is as the first run left it.
C34_Witness ==
    /\ op = "process" /\ pc = "done" /\ ending = "early"
    /\ ops = 2
    /\ Cardinality(NonBlank(inputFile)) >= 2
    /\ Loadable(ledgerFile)
    /\ Len(ledgerFile.recs) >= 2
    /\ ledgerFile.recs = existing_results
    /\ \A j \in 1..Len(ledgerFile.recs) : ledgerFile.recs[j].error = None

\* ---------------------------------------------------------------- C35

\* No item of the queue has been submitted, recorded or written.
NothingProcessed ==
    /\ \A k \in DOMAIN fut : fut[k] = NotSubmitted
    /\ count = 0
    /\ success_count = 0
    /\ writes = 0
    /\ results = existing_results

\* C35. Non-positive concurrency: an invocation of process_codes_to_solve
\* or retry_failed_codes with a non-empty queue and max_workers = 0 has
\* ended by raising with nothing processed, and with max_workers < 0 has
\* ended with its summary with nothing processed; the step that starts
\* such an invocation makes no call of the resolver and leaves the ledger
\* file as it is.
C35_NonPositiveWorkers ==
    /\ []((op # "none" /\ lines # <<>> /\ max_workers = 0) =>
            /\ pc = "done"
            /\ ending = "raised"
            /\ NothingProcessed)
    /\ []((op # "none" /\ lines # <<>> /\ max_workers < 0) =>
            /\ pc = "done"
            /\ ending = "summary"
            /\ NothingProcessed)
    /\ [][(pc = "idle" /\ ops' = ops + 1 /\ max_workers' <= 0)
          => /\ calls' = calls
             /\ ledgerFile' = ledgerFile
             /\ persisted' = persisted
             /\ pc' = "done"]_vars

\* A retry with max_workers < 0 has ended with its summary and its two
\* failed entries not submitted, after a run of process_codes_to_solve
\* with max_workers >= 1 that wrote them.
C35_Witness ==
    /\ op = "retry" /\ pc = "done" /\ ending = "summary"
    /\ max_workers < 0
    /\ Len(lines) >= 2
    /\ NothingProcessed
    /\ Loadable(ledgerFile)
    /\ ledgerFile.recs = existing_results
    /\ \E i \in 1..Len(ledgerFile.recs) : ledgerFile.recs[i].error = ErrorText

\* A run of process_codes_to_solve with max_workers = 0 has raised before
\* its first batch, its queue of two lines not submitted.
C35_WitnessZero ==
    /\ op = "process" /\ pc = "done" /\ ending = "raised"
    /\ max_workers = 0
    /\ Len(lines) >= 2
    /\ NothingProcessed

\* ---------------------------------------------------------------- C36

\* The dictionary has at least one invoice and no invoice whose
\* nit_cliente is absent or shorter than 6 characters.
Passes(d) ==
    /\ "facturas" \in DOMAIN d
    /\ d.facturas # <<>>
    /\ \A i \in 1..Len(d.facturas) :
          /\ "nit_cliente" \in DOMAIN d.facturas[i]
          /\ Len(d.facturas[i].nit_cliente) >= 6

\* The latest attempt came back with success and a dictionary that passes.
LastPassed ==
    /\ attempts # <<>>
    /\ attempts[Len(attempts)] = "success"
    /\ Passes(result.data)

\* extract_invoices_from_excel is running.
Extracting == at \in {"loop", "after_loop"}

\* C36. Bounded extraction retries: extract_invoices_from_excel calls
\* extract_structured_data at most max_retries times (never for
\* max_retries <= 0); the attempt whose result passes leaves the loop, no
\* attempt follows it, and any other attempt counts as a try and stays in
\* the loop; and whatever max_retries and however each call comes back, a
\* running extract_invoices_from_excel returns.
C36_BoundedRetries ==
    /\ [](/\ Len(attempts) <= (IF max_retries > 0 THEN max_retries ELSE 0)
          /\ current_try <= Len(attempts)
          /\ (at = "loop" => current_try = Len(attempts)))
    /\ [][Len(attempts') = Len(attempts) + 1 =>
            /\ at = "loop"
            /\ ~LastPassed
            /\ IF LastPassed'
               THEN at' = "after_loop" /\ current_try' = current_try
               ELSE at' = "loop" /\ current_try' = current_try + 1]_vars
    /\ (Extracting ~> at \in {"returned", "extracted"})

\* A direct call with max_retries = 3 has returned after two attempts: the
\* first came back with a failure value, the second with a dictionary that
\* passes.
C36_Witness ==
    /\ at = "returned"
    /\ max_retries = 3
    /\ attempts = <<"failure", "success">>
    /\ LastPassed
    /\ current_try = 1
    /\ returned = <<result.data>>

\* A direct call with max_retries = 0 has returned without any attempt.
C36_WitnessZero ==
    /\ at = "returned"
    /\ max_retries = 0
    /\ attempts = <<>>
    /\ returned # <<>>

\* ---------------------------------------------------------------- C37

\* extract_invoices_from_excel has just returned.
JustReturned == at \in {"returned", "extracted"}

\* Every attempt of the call came back with a failure value or raised.
FailedOnAllAttempts ==
    /\ attempts # <<>>
    /\ \A i \in 1..Len(attempts) : attempts[i] \in {"failure", "exception"}

\* C37 (as stated): extract_invoices_from_excel returns the dictionary of
\* the attempt that passed, or None if every attempt failed.  Violated:
\* after attempts that all failed it returns the default dictionary.
C37_DataOrNone ==
    JustReturned =>
        /\ LastPassed => returned = <<result.data>>
        /\ FailedOnAllAttempts => returned = <<>>

\* What holds instead: the function never returns None; after attempts
\* that all failed, and after no attempt at all, it returns the default
\* dictionary of lines 187-193.
C37_DataOrDefault ==
    JustReturned =>
        /\ returned # <<>>
        /\ LastPassed => returned = <<result.data>>
        /\ (FailedOnAllAttempts \/ attempts = <<>>) =>
              returned = <<DefaultData>>

\* ---------------------------------------------------------------- C38

\* The invoices of a returned value; none for None and for a dictionary
\* without the key.
FacturasOf(v) == IF v = <<>> THEN <<>> ELSE get(v[1], "facturas", <<>>)

\* No invoice of the list has a nit_cliente shorter than 6 characters.
NoShortNit(facturas) ==
    \A i \in 1..Len(facturas) :
        "nit_cliente" \in DOMAIN facturas[i] =>
            Len(facturas[i].nit_cliente) >= 6

\* C38 (as stated): the data extract_invoices_from_excel returns with a
\* list of invoices that is not empty has no invoice with a short NIT; when
\* no attempt passed, the returned value has no invoice; and every data
\* process_multiple_excel_files has saved and counted has invoices, none
\* with a short NIT.  Violated:
\* data is assigned before the validation (line 147) and kept when the
\* attempt is rejected, so the rejected dictionary of the latest
\* successful call is returned, saved and counted.
C38_OnlyValidatedEscapes ==
    /\ JustReturned =>
          /\ NoShortNit(FacturasOf(returned))
          /\ ~LastPassed => FacturasOf(returned) = <<>>
    /\ \A i \in 1..Len(saved) :
          /\ saved[i].data.facturas # <<>>
          /\ NoShortNit(saved[i].data.facturas)
    /\ total_processed = Len(saved)

====
